---- MODULE Spec2Model ----
(***************************************************************************)
(* Model of the Pterodactyl activity poller of cl-bot-python:               *)
(*   src/cogs/pterodactyl.py  Pterodactyl.activity_loop  (tasks.loop cog)   *)
(*   src/bot.py               pterodactyl_activity_loop  (create_task loop) *)
(*   src/config.py            load_state / save_state                       *)
(* The poller is one sequential coroutine; pc is its position.  The panel   *)
(* feed, the process crash and the restart are the environment.             *)
(***************************************************************************)
EXTENDS Integers, Sequences, FiniteSets, TLC

\* ---------------------------------------------------------------- bounds
MaxEv == 3          \* events the panel records in all feeds together
MaxCrash == 1       \* process kills
MaxSendFail == 1    \* channel.send failures
WarmPerPage == 2    \* page size of the warm fetch (per_page=50 in the source)
ScenarioPerPage == 4 \* page size of the warm fetch in the worked example
MaxRoles == 2       \* roles of the member given to _sync_member

\* ------------------------------------------------------- program constants
SeedPerPage == 1    \* per_page=1 of the seeding fetch
NickLimit == 32     \* longest nickname _sync_member sets

Servers == {"A", "B"}
ServerList == <<"A", "B">>

\* values of a server's record in the "servers" mapping
NoEntry == -2       \* the identifier is not a key of the mapping
NoKey == -1         \* the record exists and has no "last_id" key
None == 0           \* Python None / JSON null; event ids are 1, 2, ...

Min(a, b) == IF a < b THEN a ELSE b
Max(a, b) == IF a > b THEN a ELSE b

\* ------------------------------------------------------------- JSON text
\* The state file is a sequence of tokens.  json.dumps writes an object as
\* "{" members "}", and a prefix of that text is what a torn write leaves.
Tok(k, s, v) == [k |-> k, s |-> s, v |-> v]
LB == Tok("{", "", 0)
RB == Tok("}", "", 0)
ARR == Tok("[]", "", 0)

RECURSIVE ServerToks(_, _)
ServerToks(st, i) ==
    IF i > Len(ServerList) THEN <<>>
    ELSE LET s == ServerList[i] IN
         (IF st.cur[s] = NoEntry THEN <<>>
          ELSE <<Tok("server", s, st.cur[s])>>
               \o (IF st.sextra[s] # 0 THEN <<Tok("sextra", s, st.sextra[s])>> ELSE <<>>))
         \o ServerToks(st, i + 1)

\* json.dumps(state, indent=2)
json_dumps(st) ==
    <<LB>>
    \o (IF st.other # 0 THEN <<Tok("key", "other", st.other)>> ELSE <<>>)
    \o (IF st.ptero = 0 THEN <<>>
        ELSE IF st.ptero = 2 THEN <<Tok("pterodactyl", "bad", 2)>>
        ELSE <<Tok("pterodactyl", "", 1)>>
             \o (IF st.pextra # 0 THEN <<Tok("pextra", "", st.pextra)>> ELSE <<>>)
             \o ServerToks(st, 1))
    \o <<RB>>

EmptyState ==
    [other |-> 0, ptero |-> 0, pextra |-> 0,
     cur |-> [s \in Servers |-> NoEntry], sextra |-> [s \in Servers |-> 0]]

\* json.loads succeeds on a complete object or on another complete value
ParsesAsObject(text) ==
    /\ Len(text) >= 2
    /\ text[1] = LB
    /\ text[Len(text)] = RB
    /\ \A i \in 2..(Len(text) - 1) : text[i].k \notin {"{", "}", "[]"}
ParsesAsOther(text) == text = <<ARR>>

Field(text, k, s, dflt) ==
    IF \E i \in 1..Len(text) : text[i].k = k /\ text[i].s = s
    THEN text[CHOOSE i \in 1..Len(text) : text[i].k = k /\ text[i].s = s].v
    ELSE dflt

json_loads(text) ==
    [other |-> Field(text, "key", "other", 0),
     ptero |-> IF \E i \in 1..Len(text) : text[i].k = "pterodactyl"
               THEN text[CHOOSE i \in 1..Len(text) : text[i].k = "pterodactyl"].v
               ELSE 0,
     pextra |-> Field(text, "pextra", "", 0),
     cur |-> [s \in Servers |-> Field(text, "server", s, NoEntry)],
     sextra |-> [s \in Servers |-> Field(text, "sextra", s, 0)]]

\* mutant: no try/except and no isinstance check around json.loads
load_state_unchecked(f) ==
    IF ~f.exists THEN EmptyState ELSE json_loads(f.text)

\* config.load_state
load_state(f) ==
    IF ~f.exists THEN EmptyState
    ELSE IF ParsesAsObject(f.text) THEN json_loads(f.text)
    ELSE IF ParsesAsOther(f.text) THEN EmptyState   \* not isinstance(payload, dict)
    ELSE EmptyState                                  \* except Exception

\* mutant: state["pterodactyl"] = {"servers": {}} instead of the setdefault chain
setdefault_servers_overwrite(st) == [EmptyState EXCEPT !.other = st.other, !.ptero = 1]

\* state.setdefault("pterodactyl", {}).setdefault("servers", {})
setdefault_servers(st) == IF st.ptero = 0 THEN [st EXCEPT !.ptero = 1] ELSE st

\* ptero_state.setdefault(identifier, {})
setdefault_server(st, s) ==
    IF st.cur[s] = NoEntry THEN [st EXCEPT !.cur[s] = NoKey] ELSE st

\* server_state.get("last_id")
get_last_id(st, s) == IF st.cur[s] \in {NoEntry, NoKey} THEN None ELSE st.cur[s]

\* ------------------------------------------------------------------ feed
\* An entry of a page: its feed position and whether it carries an id.
Item(s, p, f) == [pos |-> p, hasId |-> f[s][p]]

\* mutant: the page is returned oldest first
fetch_oldest_first(f, s, n) ==
    [i \in 1..Min(n, Len(f[s])) |-> Item(s, Len(f[s]) - Min(n, Len(f[s])) + i, f)]

\* fetch_client_server_activity: the newest n entries, newest first
fetch_client_server_activity(f, s, n) ==
    [i \in 1..Min(n, Len(f[s])) |-> Item(s, Len(f[s]) - i + 1, f)]

\* mutant: str(raw) without the "raw is None" check
extract_activity_id_str(item) == item.pos

extract_activity_id(item) == IF item.hasId THEN item.pos ELSE None

\* mutant: "continue" instead of "break" at the entry that equals last_id
RECURSIVE new_items_continue(_, _, _)
new_items_continue(acts, last_id, i) ==
    IF i > Len(acts) THEN <<>>
    ELSE LET act_id == extract_activity_id(acts[i]) IN
         IF act_id = None \/ act_id = last_id THEN new_items_continue(acts, last_id, i + 1)
         ELSE <<acts[i]>> \o new_items_continue(acts, last_id, i + 1)

\* mutant: the entry that equals last_id is collected before the break
RECURSIVE new_items_inclusive(_, _, _)
new_items_inclusive(acts, last_id, i) ==
    IF i > Len(acts) THEN <<>>
    ELSE LET act_id == extract_activity_id(acts[i]) IN
         IF act_id = None THEN new_items_inclusive(acts, last_id, i + 1)
         ELSE IF act_id = last_id THEN <<acts[i]>>
         ELSE <<acts[i]>> \o new_items_inclusive(acts, last_id, i + 1)

\* the loop that builds new_items
RECURSIVE new_items_from(_, _, _)
new_items_from(acts, last_id, i) ==
    IF i > Len(acts) THEN <<>>
    ELSE LET act_id == extract_activity_id(acts[i]) IN
         IF act_id = None THEN new_items_from(acts, last_id, i + 1)
         ELSE IF act_id = last_id THEN <<>>
         ELSE <<acts[i]>> \o new_items_from(acts, last_id, i + 1)

\* ----------------------------------------------------------------- state
VARIABLES
    impl,       \* "cog": cogs/pterodactyl.py, "bot": bot.py
    feed,       \* feed[s]: the panel's activity feed, oldest first; TRUE = entry has an id
    file,       \* the state file: [exists, text]
    pc,         \* position of the poller coroutine
    state,      \* the dict returned by load_state, as mutated in memory
    booted,     \* bot.py: the seeding before the while loop is done
    idx,        \* index of the for loop over servers
    new_items,  \* new_items of the server being handled
    sendIdx,    \* entries of reversed(new_items) still to send
    sent,       \* history: ids delivered to the channel, per server, in order
    warnings,   \* history: "No Pterodactyl servers configured" lines logged by this process
    crashes,    \* history: process kills
    sendFails,  \* history: failed channel.send calls
    curAtStart, \* history: each server's record when the running body began
    seeded,     \* history: what the seeding fetch of this body returned, per server
    failedWith, \* history: last_id of a server's warm fetch that failed, until a fetch
                \*          for it succeeds and its batch, if any, is sent
    crashedAt,  \* history: where the kill hit the poller, until the restart
    maxSaved,   \* history: the newest last_id of each server that save_state has
                \*          written in full
    holdsAdmin, \* applications.py: holdsAdmin[r], reviewer r has ROLE_ADMIN now
    handler,    \* applications.py: position of the handler of r's interaction
    message,    \* applications.py: the application message, [fields, view]
    decisions,  \* history: the Status fields written to the message, in order
    applicantRoles, \* history: member.add_roles calls that succeeded
    member,     \* staff.py: the member given to _sync_member, [roles, nick]
    synced,     \* staff.py: what the latest _sync_member returned
    edited      \* history: the latest _sync_member called member.edit

hist == <<curAtStart, seeded, failedWith, crashedAt, maxSaved>>
reviewVars == <<holdsAdmin, handler, message, decisions, applicantRoles>>
syncVars == <<member, synced, edited>>
cogs == <<reviewVars, syncVars>>
pollerVars == <<impl, feed, file, pc, state, booted, idx, new_items, sendIdx,
                sent, warnings, crashes, sendFails, hist>>
vars == <<pollerVars, cogs>>

\* values of the history variables
NotTried == -1                       \* seeded[s]: no seeding fetch in this body
NoFail == -3                         \* failedWith[s]: the latest warm fetch did not fail
NotCrashed ==
    [pc |-> "", idx |-> 0, cur |-> [s \in Servers |-> NoEntry],
     start |-> [s \in Servers |-> NoEntry]]

\* applications.py and staff.py before any interaction: one application message
\* with its review buttons, and one member nobody has synced
Reviewers == {"r1", "r2"}
Message(f, v) == [fields |-> f, view |-> v]
Member(r, n) == [roles |-> r, nick |-> n]
NoCall == [ok |-> FALSE, msg |-> ""]
CogsIdle ==
    /\ holdsAdmin = [r \in Reviewers |-> TRUE]
    /\ handler = [r \in Reviewers |-> "idle"]
    /\ message = Message(<<>>, TRUE)
    /\ decisions = <<>>
    /\ applicantRoles = 0
    /\ member = Member(<<>>, <<"a">>)
    /\ synced = NoCall
    /\ edited = FALSE

File(e, t) == [exists |-> e, text |-> t]

\* a state file left by an earlier version or by other subsystems
ForeignState ==
    [other |-> 7, ptero |-> 1, pextra |-> 8,
     cur |-> [s \in Servers |-> IF s = "A" THEN None ELSE NoEntry],
     sextra |-> [s \in Servers |-> IF s = "A" THEN 9 ELSE 0]]

InitFiles ==
    { File(FALSE, <<>>),                                  \* missing
      File(TRUE, <<>>),                                   \* empty
      File(TRUE, <<LB, Tok("key", "other", 7)>>),         \* truncated
      File(TRUE, <<ARR>>),                                \* valid JSON, not an object
      File(TRUE, <<LB, Tok("pterodactyl", "bad", 2), RB>>), \* "pterodactyl" is not an object
      File(TRUE, json_dumps(ForeignState)) }

Init ==
    /\ impl \in {"cog", "bot"}
    /\ feed = [s \in Servers |-> <<>>]
    /\ file \in InitFiles
    /\ pc = "sleep"
    /\ state = EmptyState
    /\ booted = FALSE
    /\ idx = 0
    /\ new_items = <<>>
    /\ sendIdx = 0
    /\ sent = [s \in Servers |-> <<>>]
    /\ warnings = 0
    /\ crashes = 0
    /\ sendFails = 0
    /\ curAtStart = [s \in Servers |-> NoEntry]
    /\ seeded = [s \in Servers |-> NotTried]
    /\ failedWith = [s \in Servers |-> NoFail]
    /\ crashedAt = NotCrashed
    /\ maxSaved = [s \in Servers |-> None]
    /\ CogsIdle

NoLocals == idx' = 0 /\ new_items' = <<>> /\ sendIdx' = 0

InLoop == idx >= 1 /\ idx <= Len(ServerList)
Cur == ServerList[idx]

HasLastIdKey(st, s) == st.cur[s] \notin {NoEntry, NoKey}

\* entries of all feeds together
RECURSIVE LenSum(_, _)
LenSum(f, S) ==
    IF S = {} THEN 0
    ELSE LET s == CHOOSE x \in S : TRUE IN Len(f[s]) + LenSum(f, S \ {s})
EventCount(f) == LenSum(f, Servers)

\* --------------------------------------------------------- environment
\* The panel appends an event.  The feed is read only by the fetch of the
\* server being handled, so growth is scheduled right before that fetch.
FeedAppend ==
    /\ \/ pc = "seed" /\ InLoop /\ ~HasLastIdKey(state, Cur)
       \/ pc = "warm" /\ InLoop
    /\ EventCount(feed) < MaxEv
    /\ \E hasId \in BOOLEAN : feed' = [feed EXCEPT ![Cur] = Append(@, hasId)]
    /\ UNCHANGED <<cogs, impl, file, pc, state, booted, idx, new_items, sendIdx,
                   sent, warnings, crashes, sendFails, hist>>

\* proper prefixes a torn write_text can leave
TornTexts(text) == { SubSeq(text, 1, n) : n \in 0..(Len(text) - 1) }

\* The process is killed.  Memory is lost, the file stays as it is; a kill
\* inside write_text leaves a prefix of the text being written.
Crash ==
    /\ pc # "down"
    /\ crashes < MaxCrash
    /\ crashes' = crashes + 1
    /\ pc' = "down"
    /\ state' = EmptyState
    /\ booted' = FALSE
    /\ NoLocals
    /\ IF pc = "save_write"
       THEN \E t \in TornTexts(json_dumps(state)) : file' = File(TRUE, t)
       ELSE file' = file
    /\ crashedAt' = [pc |-> pc, idx |-> idx, cur |-> state.cur, start |-> curAtStart]
    /\ failedWith' = [s \in Servers |-> NoFail]
    /\ curAtStart' = [s \in Servers |-> NoEntry]
    /\ seeded' = [s \in Servers |-> NotTried]
    /\ warnings' = 0
    /\ UNCHANGED <<cogs, impl, feed, sent, sendFails, maxSaved>>

Restart ==
    /\ pc = "down"
    /\ pc' = "sleep"
    /\ crashedAt' = NotCrashed
    /\ UNCHANGED <<cogs, impl, feed, file, state, booted, idx, new_items, sendIdx,
                   sent, warnings, crashes, sendFails,
                   curAtStart, seeded, failedWith, maxSaved>>

\* ------------------------------------------------------------ scheduling
\* An exception leaves the loop body.  tasks.loop re-runs the body after a
\* backoff for a connection error (OSError, aiohttp.ClientError, timeout) and
\* stops the loop for any other exception; the create_task coroutine of
\* bot.py ends.  connection: the failing call can raise a connection error.
Escape(connection) ==
    /\ pc' \in (IF impl = "cog" /\ connection THEN {"sleep", "dead"} ELSE {"dead"})
    /\ state' = EmptyState
    /\ NoLocals
    /\ curAtStart' = [s \in Servers |-> NoEntry]
    /\ seeded' = [s \in Servers |-> NotTried]
    /\ UNCHANGED <<failedWith, crashedAt, maxSaved>>

CanStartBody == pc = "sleep"

\* mutant: the warning is logged and the loop is not cancelled
ResolveEmptyNoCancel ==
    /\ CanStartBody
    /\ impl = "cog" \/ ~booted
    /\ warnings' = warnings + 1
    /\ pc' = "sleep"
    /\ UNCHANGED <<cogs, impl, feed, file, state, booted, idx, new_items, sendIdx,
                   sent, crashes, sendFails, hist>>

\* load_ptero_servers returns an empty list: log, cancel the loop, return
ResolveEmpty ==
    /\ CanStartBody
    /\ impl = "cog" \/ ~booted
    /\ warnings' = warnings + 1
    /\ pc' = "disabled"
    /\ UNCHANGED <<cogs, impl, feed, file, state, booted, idx, new_items, sendIdx,
                   sent, crashes, sendFails, hist>>

\* load_ptero_servers raises (the listing call of fetch_application_servers)
ResolveRaise ==
    /\ CanStartBody
    /\ impl = "cog" \/ ~booted
    /\ Escape(TRUE)
    /\ UNCHANGED <<cogs, impl, feed, file, booted, sent, warnings, crashes, sendFails>>

\* get_channel / fetch_channel raises: log and return
ChannelFail ==
    /\ CanStartBody
    /\ impl = "cog" \/ ~booted
    /\ pc' = IF impl = "cog" THEN "sleep" ELSE "dead"
    /\ UNCHANGED <<cogs, impl, feed, file, state, booted, idx, new_items, sendIdx,
                   sent, warnings, crashes, sendFails, hist>>

\* load_state, then the setdefault chain; a "pterodactyl" value that is not
\* an object makes .setdefault raise AttributeError
BodyLoadRaise ==
    /\ CanStartBody
    /\ impl = "cog" \/ ~booted
    /\ load_state(file).ptero = 2
    /\ Escape(FALSE)
    /\ UNCHANGED <<cogs, impl, feed, file, booted, sent, warnings, crashes, sendFails>>

BodyBegin ==
    /\ CanStartBody
    /\ impl = "cog" \/ ~booted
    /\ load_state(file).ptero # 2
    /\ state' = setdefault_servers(load_state(file))
    /\ curAtStart' = state'.cur
    /\ seeded' = [s \in Servers |-> NotTried]
    /\ pc' = "seed"
    /\ idx' = 1
    /\ UNCHANGED <<cogs, impl, feed, file, booted, new_items, sendIdx,
                   sent, warnings, crashes, sendFails, failedWith, crashedAt, maxSaved>>

\* bot.py: the next turn of "while not client.is_closed()" after the sleep
BotNextPass ==
    /\ CanStartBody
    /\ impl = "bot" /\ booted
    /\ curAtStart' = state.cur
    /\ seeded' = [s \in Servers |-> NotTried]
    /\ pc' = "warm"
    /\ idx' = 1
    /\ UNCHANGED <<cogs, impl, feed, file, state, booted, new_items, sendIdx,
                   sent, warnings, crashes, sendFails, failedWith, crashedAt, maxSaved>>

\* ------------------------------------------------------------ seeding loop

SeedSkip ==
    /\ pc = "seed" /\ InLoop
    /\ HasLastIdKey(state, Cur)
    /\ idx' = idx + 1
    /\ UNCHANGED <<cogs, impl, feed, file, pc, state, booted, new_items, sendIdx,
                   sent, warnings, crashes, sendFails, hist>>

SeedFetchFail ==
    /\ pc = "seed" /\ InLoop
    /\ ~HasLastIdKey(state, Cur)
    /\ state' = setdefault_server(state, Cur)
    /\ seeded' = [seeded EXCEPT ![Cur] = None]
    /\ idx' = idx + 1
    /\ UNCHANGED <<cogs, impl, feed, file, pc, booted, new_items, sendIdx,
                   sent, warnings, crashes, sendFails,
                   curAtStart, failedWith, crashedAt, maxSaved>>

\* what the seeding stores for a page: the id of activities[0], if any
seed_last_id(st, s, activities) ==
    LET st1 == setdefault_server(st, s) IN
    IF activities # <<>> /\ extract_activity_id(activities[1]) # None
    THEN [st1 EXCEPT !.cur[s] = extract_activity_id(activities[1])]
    ELSE st1

SeedFetch ==
    /\ pc = "seed" /\ InLoop
    /\ ~HasLastIdKey(state, Cur)
    /\ LET activities == fetch_client_server_activity(feed, Cur, SeedPerPage) IN
         /\ state' = seed_last_id(state, Cur, activities)
         /\ seeded' = [seeded EXCEPT ![Cur] =
                          IF activities = <<>> THEN None
                          ELSE extract_activity_id(activities[1])]
    /\ idx' = idx + 1
    /\ UNCHANGED <<cogs, impl, feed, file, pc, booted, new_items, sendIdx,
                   sent, warnings, crashes, sendFails,
                   curAtStart, failedWith, crashedAt, maxSaved>>

\* save_state(state) after the seeding loop
SeedDone ==
    /\ pc = "seed" /\ idx > Len(ServerList)
    /\ pc' = "save_open"
    /\ idx' = 1
    /\ booted' = TRUE
    /\ UNCHANGED <<cogs, impl, feed, file, state, new_items, sendIdx,
                   sent, warnings, crashes, sendFails, hist>>

\* ------------------------------------------------------------- save_state
\* Path.write_text: open(mode="w") truncates the file, write, close
SaveOpen ==
    /\ pc = "save_open"
    /\ file' = File(TRUE, <<>>)
    /\ pc' = "save_write"
    /\ UNCHANGED <<cogs, impl, feed, state, booted, idx, new_items, sendIdx,
                   sent, warnings, crashes, sendFails, hist>>

SaveWrite ==
    /\ pc = "save_write"
    /\ file' = File(TRUE, json_dumps(state))
    /\ pc' = "warm"
    /\ maxSaved' = [s \in Servers |-> Max(maxSaved[s], get_last_id(state, s))]
    /\ UNCHANGED <<cogs, impl, feed, state, booted, idx, new_items, sendIdx,
                   sent, warnings, crashes, sendFails,
                   curAtStart, seeded, failedWith, crashedAt>>

\* --------------------------------------------------------------- warm loop
\* mutant: the except branch forgets the cursor of the server
WarmFetchFailForgets ==
    /\ pc = "warm" /\ InLoop
    /\ state' = [state EXCEPT !.cur[Cur] = NoKey]
    /\ failedWith' = [failedWith EXCEPT ![Cur] = get_last_id(state, Cur)]
    /\ idx' = idx + 1
    /\ UNCHANGED <<cogs, impl, feed, file, pc, booted, new_items, sendIdx,
                   sent, warnings, crashes, sendFails,
                   curAtStart, seeded, crashedAt, maxSaved>>

WarmFetchFail ==
    /\ pc = "warm" /\ InLoop
    /\ state' = setdefault_server(state, Cur)
    /\ failedWith' = [failedWith EXCEPT ![Cur] = get_last_id(state', Cur)]
    /\ idx' = idx + 1
    /\ UNCHANGED <<cogs, impl, feed, file, pc, booted, new_items, sendIdx,
                   sent, warnings, crashes, sendFails,
                   curAtStart, seeded, crashedAt, maxSaved>>

\* which branch the body takes for a fetched page
warm_outcome(activities, last_id) ==
    IF activities = <<>> THEN "empty"
    ELSE IF last_id = None /\ extract_activity_id(activities[1]) # None THEN "seed"
    ELSE IF new_items_from(activities, last_id, 1) = <<>> THEN "nonew"
    ELSE "batch"

\* mutant: an empty page is stored like any other result: save_state is called
WarmFetchPageResave(per_page) ==
    /\ pc = "warm" /\ InLoop
    /\ LET st1 == setdefault_server(state, Cur)
           last_id == get_last_id(st1, Cur)
           activities == fetch_client_server_activity(feed, Cur, per_page)
           outcome == warm_outcome(activities, last_id)
       IN
         /\ failedWith' = IF outcome = "batch" THEN failedWith
                          ELSE [failedWith EXCEPT ![Cur] = NoFail]
         /\ CASE outcome = "seed" ->
                   /\ state' = [st1 EXCEPT !.cur[Cur] = extract_activity_id(activities[1])]
                   /\ pc' = "save_open"
                   /\ idx' = idx + 1
                   /\ UNCHANGED <<new_items, sendIdx>>
              [] outcome = "batch" ->
                   /\ state' = st1
                   /\ new_items' = new_items_from(activities, last_id, 1)
                   /\ sendIdx' = Len(new_items')
                   /\ pc' = "send"
                   /\ UNCHANGED idx
              [] OTHER ->
                   /\ state' = st1
                   /\ pc' = "save_open"
                   /\ idx' = idx + 1
                   /\ UNCHANGED <<new_items, sendIdx>>
    /\ UNCHANGED <<cogs, impl, feed, file, booted, sent, warnings, crashes,
                   sendFails, curAtStart, seeded, crashedAt, maxSaved>>

\* the warm fetch succeeds with a page of at most per_page entries
WarmFetchPage(per_page) ==
    /\ pc = "warm" /\ InLoop
    /\ LET st1 == setdefault_server(state, Cur)
           last_id == get_last_id(st1, Cur)
           activities == fetch_client_server_activity(feed, Cur, per_page)
           outcome == warm_outcome(activities, last_id)
       IN
         /\ failedWith' = IF outcome = "batch" THEN failedWith
                          ELSE [failedWith EXCEPT ![Cur] = NoFail]
         /\ CASE outcome = "seed" ->
                   /\ state' = [st1 EXCEPT !.cur[Cur] = extract_activity_id(activities[1])]
                   /\ pc' = "save_open"
                   /\ idx' = idx + 1
                   /\ UNCHANGED <<new_items, sendIdx>>
              [] outcome = "batch" ->
                   /\ state' = st1
                   /\ new_items' = new_items_from(activities, last_id, 1)
                   /\ sendIdx' = Len(new_items')
                   /\ pc' = "send"
                   /\ UNCHANGED idx
              [] OTHER ->
                   /\ state' = st1
                   /\ idx' = idx + 1
                   /\ UNCHANGED <<pc, new_items, sendIdx>>
    /\ UNCHANGED <<cogs, impl, feed, file, booted, sent, warnings, crashes,
                   sendFails, curAtStart, seeded, crashedAt, maxSaved>>

WarmFetch == WarmFetchPage(WarmPerPage)

\* mutant: "for act in new_items", the page order
SendOkPageOrder ==
    /\ pc = "send"
    /\ sent' = [sent EXCEPT ![Cur] =
                   Append(@, extract_activity_id(new_items[Len(new_items) - sendIdx + 1]))]
    /\ sendIdx' = sendIdx - 1
    /\ pc' = IF sendIdx = 1 THEN "advance" ELSE "send"
    /\ UNCHANGED <<cogs, impl, feed, file, state, booted, idx, new_items,
                   warnings, crashes, sendFails, hist>>

\* mutant: the embed is built and never sent
SendOkDropped ==
    /\ pc = "send"
    /\ sendIdx' = sendIdx - 1
    /\ pc' = IF sendIdx = 1 THEN "advance" ELSE "send"
    /\ UNCHANGED <<cogs, impl, feed, file, state, booted, idx, new_items, sent,
                   warnings, crashes, sendFails, hist>>

\* mutant: "break" after the first send of the batch
SendOkOnce ==
    /\ pc = "send"
    /\ sent' = [sent EXCEPT ![Cur] = Append(@, extract_activity_id(new_items[sendIdx]))]
    /\ sendIdx' = sendIdx - 1
    /\ pc' = "advance"
    /\ UNCHANGED <<cogs, impl, feed, file, state, booted, idx, new_items,
                   warnings, crashes, sendFails, hist>>

\* for act in reversed(new_items): await channel.send(embed=embed)
SendOk ==
    /\ pc = "send"
    /\ sent' = [sent EXCEPT ![Cur] = Append(@, extract_activity_id(new_items[sendIdx]))]
    /\ sendIdx' = sendIdx - 1
    /\ pc' = IF sendIdx = 1 THEN "advance" ELSE "send"
    /\ UNCHANGED <<cogs, impl, feed, file, state, booted, idx, new_items,
                   warnings, crashes, sendFails, hist>>

\* channel.send raises; nothing in the body catches it
SendFail ==
    /\ pc = "send"
    /\ sendFails < MaxSendFail
    /\ sendFails' = sendFails + 1
    /\ Escape(TRUE)
    /\ UNCHANGED <<cogs, impl, feed, file, booted, sent, warnings, crashes>>

\* mutant: the cursor is stored in memory and save_state is not called
AdvanceNoSave ==
    /\ pc = "advance"
    /\ state' = [state EXCEPT !.cur[Cur] = extract_activity_id(new_items[1])]
    /\ pc' = "warm"
    /\ idx' = idx + 1
    /\ new_items' = <<>>
    /\ sendIdx' = 0
    /\ failedWith' = [failedWith EXCEPT ![Cur] = NoFail]
    /\ UNCHANGED <<cogs, impl, feed, file, booted, sent, warnings, crashes,
                   sendFails, curAtStart, seeded, crashedAt, maxSaved>>

\* mutant: updated_id is stored in the record of every server
AdvanceShared ==
    /\ pc = "advance"
    /\ state' = [state EXCEPT !.cur =
                     [s \in Servers |-> extract_activity_id(new_items[1])]]
    /\ pc' = "save_open"
    /\ idx' = idx + 1
    /\ new_items' = <<>>
    /\ sendIdx' = 0
    /\ failedWith' = [failedWith EXCEPT ![Cur] = NoFail]
    /\ UNCHANGED <<cogs, impl, feed, file, booted, sent, warnings, crashes,
                   sendFails, curAtStart, seeded, crashedAt, maxSaved>>

\* mutant: updated_id is taken from new_items[-1]
AdvanceOldest ==
    /\ pc = "advance"
    /\ state' = [state EXCEPT !.cur[Cur] = extract_activity_id(new_items[Len(new_items)])]
    /\ pc' = "save_open"
    /\ idx' = idx + 1
    /\ new_items' = <<>>
    /\ sendIdx' = 0
    /\ failedWith' = [failedWith EXCEPT ![Cur] = NoFail]
    /\ UNCHANGED <<cogs, impl, feed, file, booted, sent, warnings, crashes,
                   sendFails, curAtStart, seeded, crashedAt, maxSaved>>

\* updated_id = extract_activity_id(new_items[0]); store it; save_state(state)
Advance ==
    /\ pc = "advance"
    /\ state' = [state EXCEPT !.cur[Cur] = extract_activity_id(new_items[1])]
    /\ pc' = "save_open"
    /\ idx' = idx + 1
    /\ new_items' = <<>>
    /\ sendIdx' = 0
    /\ failedWith' = [failedWith EXCEPT ![Cur] = NoFail]
    /\ UNCHANGED <<cogs, impl, feed, file, booted, sent, warnings, crashes,
                   sendFails, curAtStart, seeded, crashedAt, maxSaved>>

\* the for loop over servers is exhausted: the body returns / the loop sleeps
WarmDone ==
    /\ pc = "warm" /\ idx > Len(ServerList)
    /\ pc' = "sleep"
    /\ idx' = 0
    /\ state' = IF impl = "cog" THEN EmptyState ELSE state
    /\ curAtStart' = [s \in Servers |-> NoEntry]
    /\ seeded' = [s \in Servers |-> NotTried]
    /\ UNCHANGED <<cogs, impl, feed, file, booted, new_items, sendIdx,
                   sent, warnings, crashes, sendFails, failedWith, crashedAt, maxSaved>>

Next ==
    \/ FeedAppend \/ Crash \/ Restart
    \/ ResolveEmpty \/ ResolveRaise \/ ChannelFail \/ BodyLoadRaise
    \/ BodyBegin \/ BotNextPass
    \/ SeedSkip \/ SeedFetchFail \/ SeedFetch \/ SeedDone
    \/ SaveOpen \/ SaveWrite
    \/ WarmFetchFail \/ WarmFetch \/ SendOk \/ SendFail \/ Advance \/ WarmDone

Spec == Init /\ [][Next]_vars

\* ------------------------------------------------------ the worked example
\* Server "A" stands for sb4 and feed positions 1..5 for the ids 103..107.
\* The cursor store is empty, the feed of sb4 is [105, 104, 103] when the
\* first pass runs and [107, 106, 105, 104, 103] afterwards; every fetch and
\* every send succeeds.  The other server's feed grows freely.
InitScenario ==
    /\ impl \in {"cog", "bot"}
    /\ feed = [s \in Servers |-> IF s = "A" THEN <<TRUE, TRUE, TRUE>> ELSE <<>>]
    /\ file \in {File(FALSE, <<>>), File(TRUE, <<>>), File(TRUE, <<LB, RB>>)}
    /\ pc = "sleep"
    /\ state = EmptyState
    /\ booted = FALSE
    /\ idx = 0
    /\ new_items = <<>>
    /\ sendIdx = 0
    /\ sent = [s \in Servers |-> <<>>]
    /\ warnings = 0
    /\ crashes = 0
    /\ sendFails = 0
    /\ curAtStart = [s \in Servers |-> NoEntry]
    /\ seeded = [s \in Servers |-> NotTried]
    /\ failedWith = [s \in Servers |-> NoFail]
    /\ crashedAt = NotCrashed
    /\ maxSaved = [s \in Servers |-> None]
    /\ CogsIdle

\* between two passes the panel records 106 and 107 for sb4, or one more
\* entry for the other server
ScenarioFeedAppend ==
    /\ pc = "sleep" /\ booted
    /\ \/ /\ Len(feed["A"]) = 3
          /\ feed' = [feed EXCEPT !["A"] = @ \o <<TRUE, TRUE>>]
       \/ /\ Len(feed["B"]) < MaxEv
          /\ \E hasId \in BOOLEAN : feed' = [feed EXCEPT !["B"] = Append(@, hasId)]
    /\ UNCHANGED <<cogs, impl, file, pc, state, booted, idx, new_items, sendIdx,
                   sent, warnings, crashes, sendFails, hist>>

ScenarioWarmFetch == WarmFetchPage(ScenarioPerPage)

NextScenario ==
    \/ ScenarioFeedAppend
    \/ BodyBegin \/ BotNextPass
    \/ SeedSkip \/ SeedFetch \/ SeedDone
    \/ SaveOpen \/ SaveWrite
    \/ ScenarioWarmFetch \/ SendOk \/ Advance \/ WarmDone

SpecScenario == InitScenario /\ [][NextScenario]_vars

TypeOK ==
    /\ impl \in {"cog", "bot"}
    /\ pc \in {"sleep", "seed", "save_open", "save_write", "warm", "send",
               "advance", "disabled", "dead", "down", "cancelled"}
    /\ \A s \in Servers : Len(feed[s]) <= MaxEv /\ state.cur[s] \in NoEntry..MaxEv

\* ------------------------------------------------------------ cancellation
\* activity_loop.cancel() (cog_unload) or the shutdown of the event loop
\* cancels the task of the poller.  CancelledError is raised at the await
\* the coroutine is suspended in: the sleep between two passes (with the
\* awaits of the resolution and of the channel lookup), a seeding fetch, a
\* warm fetch, or channel.send.  load_state and save_state are plain calls.
Suspended ==
    \/ pc = "sleep"
    \/ pc = "seed" /\ InLoop /\ ~HasLastIdKey(state, Cur)
    \/ pc = "warm" /\ InLoop
    \/ pc = "send"

\* what a cancellation does to the poller, wherever it is delivered
Cancelled ==
    /\ pc' = "cancelled"
    /\ state' = EmptyState
    /\ NoLocals
    /\ crashedAt' = [pc |-> pc, idx |-> idx, cur |-> state.cur, start |-> curAtStart]
    /\ curAtStart' = [s \in Servers |-> NoEntry]
    /\ seeded' = [s \in Servers |-> NotTried]
    /\ UNCHANGED <<cogs, impl, feed, booted, sent, warnings, crashes, sendFails,
                   failedWith, maxSaved>>

\* mutant: the cancellation is delivered at any point, also inside write_text
CancelAnywhere ==
    /\ pc \notin {"disabled", "dead", "down", "cancelled"}
    /\ IF pc = "save_write"
       THEN \E t \in TornTexts(json_dumps(state)) : file' = File(TRUE, t)
       ELSE file' = file
    /\ Cancelled

Cancel ==
    /\ Suspended
    /\ file' = file
    /\ Cancelled

\* state files that hold a complete JSON object, and no file
InitCancelFiles ==
    { File(FALSE, <<>>),
      File(TRUE, <<LB, RB>>),
      File(TRUE, <<LB, Tok("pterodactyl", "bad", 2), RB>>),
      File(TRUE, json_dumps(ForeignState)) }

InitCancel ==
    /\ impl \in {"cog", "bot"}
    /\ feed = [s \in Servers |-> <<>>]
    /\ file \in InitCancelFiles
    /\ pc = "sleep"
    /\ state = EmptyState
    /\ booted = FALSE
    /\ idx = 0
    /\ new_items = <<>>
    /\ sendIdx = 0
    /\ sent = [s \in Servers |-> <<>>]
    /\ warnings = 0
    /\ crashes = 0
    /\ sendFails = 0
    /\ curAtStart = [s \in Servers |-> NoEntry]
    /\ seeded = [s \in Servers |-> NotTried]
    /\ failedWith = [s \in Servers |-> NoFail]
    /\ crashedAt = NotCrashed
    /\ maxSaved = [s \in Servers |-> None]
    /\ CogsIdle

NextCancel ==
    \/ FeedAppend \/ Cancel
    \/ ResolveEmpty \/ ResolveRaise \/ ChannelFail \/ BodyLoadRaise
    \/ BodyBegin \/ BotNextPass
    \/ SeedSkip \/ SeedFetchFail \/ SeedFetch \/ SeedDone
    \/ SaveOpen \/ SaveWrite
    \/ WarmFetchFail \/ WarmFetch \/ SendOk \/ SendFail \/ Advance \/ WarmDone

SpecCancel == InitCancel /\ [][NextCancel]_vars

\* -------------------------------------------------------------- empty page
\* response.get("data", []): the panel answers the warm fetch with no
\* entries (no "data", or an empty list), whatever the feed held before.
WarmFetchEmpty == WarmFetchPage(0)

NextEmptyPage ==
    \/ FeedAppend \/ WarmFetchEmpty
    \/ ResolveEmpty \/ ResolveRaise \/ ChannelFail \/ BodyLoadRaise
    \/ BodyBegin \/ BotNextPass
    \/ SeedSkip \/ SeedFetchFail \/ SeedFetch \/ SeedDone
    \/ SaveOpen \/ SaveWrite
    \/ WarmFetchFail \/ WarmFetch \/ SendOk \/ SendFail \/ Advance \/ WarmDone

SpecEmptyPage == InitCancel /\ [][NextEmptyPage]_vars

\* -------------------------------------------------- application review
\* cogs/applications.py: one application message with its ApplicationReviewView,
\* and the interactions of two reviewers with it.  message.edit is taken to
\* succeed.  The poller does not run in this specification.
PollerOff ==
    /\ impl = "cog"
    /\ feed = [s \in Servers |-> <<>>]
    /\ file = File(FALSE, <<>>)
    /\ pc = "disabled"
    /\ state = EmptyState
    /\ booted = FALSE
    /\ idx = 0
    /\ new_items = <<>>
    /\ sendIdx = 0
    /\ sent = [s \in Servers |-> <<>>]
    /\ warnings = 0
    /\ crashes = 0
    /\ sendFails = 0
    /\ curAtStart = [s \in Servers |-> NoEntry]
    /\ seeded = [s \in Servers |-> NotTried]
    /\ failedWith = [s \in Servers |-> NoFail]
    /\ crashedAt = NotCrashed
    /\ maxSaved = [s \in Servers |-> None]

InitReview ==
    /\ PollerOff
    /\ holdsAdmin \in [Reviewers -> BOOLEAN]
    /\ handler = [r \in Reviewers |-> "idle"]
    /\ message = Message(<<>>, TRUE)
    /\ decisions = <<>>
    /\ applicantRoles = 0
    /\ member = Member(<<>>, <<"a">>)
    /\ synced = NoCall
    /\ edited = FALSE

\* no handler of r is running and no modal of r is open
Free(r) == handler[r] \in {"idle", "rejected", "failed", "done"}

\* ApplicationReviewView.interaction_check: the user is a Member with ROLE_ADMIN
interaction_check(r, is_member) == is_member /\ holdsAdmin[r]

\* r presses Accept or Decline; the buttons exist while the message has its view.
\* The view runs interaction_check and then the button's callback, which looks
\* the applicant up (get_member, else await fetch_member).
Press(r) ==
    /\ message.view
    /\ Free(r)
    /\ \E button \in {"accept", "decline"}, is_member \in BOOLEAN :
           handler' = [handler EXCEPT ![r] =
                          IF ~interaction_check(r, is_member) THEN "rejected"
                          ELSE IF button = "accept" THEN "accept_member"
                          ELSE "decline_member"]
    /\ UNCHANGED <<pollerVars, syncVars, holdsAdmin, message, decisions, applicantRoles>>

\* accept: the applicant is found, or NotFound / HTTPException ends the handler
AcceptMember(r) ==
    /\ handler[r] = "accept_member"
    /\ \E found \in BOOLEAN :
           handler' = [handler EXCEPT ![r] = IF found THEN "accept_roles" ELSE "failed"]
    /\ UNCHANGED <<pollerVars, syncVars, holdsAdmin, message, decisions, applicantRoles>>

\* accept: await member.add_roles(*roles); Forbidden or another exception ends
\* the handler
AcceptRoles(r) ==
    /\ handler[r] = "accept_roles"
    /\ \E ok \in BOOLEAN :
           IF ok
           THEN /\ applicantRoles' = applicantRoles + 1
                /\ handler' = [handler EXCEPT ![r] = "accept_edit"]
           ELSE /\ handler' = [handler EXCEPT ![r] = "failed"]
                /\ UNCHANGED applicantRoles
    /\ UNCHANGED <<pollerVars, syncVars, holdsAdmin, message, decisions>>

\* the embed the interaction carried (it was pressed while the view was
\* attached) gets a Status field and replaces the message's embed; view=None
record_decision(d) ==
    /\ message' = Message(<<d>>, FALSE)
    /\ decisions' = Append(decisions, d)

\* accept: embed.add_field("Status", "Accepted by ..."), await message.edit
AcceptEdit(r) ==
    /\ handler[r] = "accept_edit"
    /\ record_decision("accepted")
    /\ handler' = [handler EXCEPT ![r] = "done"]
    /\ UNCHANGED <<pollerVars, syncVars, holdsAdmin, applicantRoles>>

\* decline: the applicant is found, or the lookup failed with an exception that
\* is passed over, and the modal is sent; or NotFound and the application is
\* declined at once
DeclineMember(r) ==
    /\ handler[r] = "decline_member"
    /\ \E left \in BOOLEAN :
           IF left
           THEN /\ record_decision("declined")
                /\ handler' = [handler EXCEPT ![r] = "done"]
           ELSE /\ handler' = [handler EXCEPT ![r] = "modal"]
                /\ UNCHANGED <<message, decisions>>
    /\ UNCHANGED <<pollerVars, syncVars, holdsAdmin, applicantRoles>>

\* DeclineModal.on_submit: r submits the modal; no check of r's roles here
on_submit(r) ==
    /\ handler[r] = "modal"
    /\ record_decision("declined")
    /\ handler' = [handler EXCEPT ![r] = "done"]
    /\ UNCHANGED <<pollerVars, syncVars, holdsAdmin, applicantRoles>>

\* r closes the modal without submitting
ModalDismiss(r) ==
    /\ handler[r] = "modal"
    /\ handler' = [handler EXCEPT ![r] = "idle"]
    /\ UNCHANGED <<pollerVars, syncVars, holdsAdmin, message, decisions, applicantRoles>>

\* the guild gives ROLE_ADMIN to r or takes it away
RoleChange(r) ==
    /\ holdsAdmin' = [holdsAdmin EXCEPT ![r] = ~holdsAdmin[r]]
    /\ UNCHANGED <<pollerVars, syncVars, handler, message, decisions, applicantRoles>>

NextReview ==
    \E r \in Reviewers :
        \/ Press(r)
        \/ AcceptMember(r)
        \/ AcceptRoles(r)
        \/ AcceptEdit(r)
        \/ DeclineMember(r)
        \/ on_submit(r)
        \/ ModalDismiss(r)
        \/ RoleChange(r)

SpecReview == InitReview /\ [][NextReview]_vars

\* --------------------------------------------------------- nickname sync
\* cogs/staff.py: _sync_member on one member.  Strings are sequences of
\* characters.  The poller and the application review do not run here.
ROLE_TAGS ==
    ("1442244395327033460" :> <<"[", "S", "B", "4", "]">>) @@
    ("1442244395360456750" :> <<"[", "I", "E", "]">>) @@
    ("1442244395343544455" :>
        <<"[", "N", "o", "m", "i", "F", "a", "c", "t", "o", "r", "y", "]">>) @@
    ("1442244395360456747" :> <<"[", "S", "F", "2", ".", "5", "]">>) @@
    ("1442244395360456751" :> <<"[", "G", "T", "N", "H", "]">>) @@
    ("1442244395327033461" :> <<"[", "A", "T", "M", "1", "0", "]">>) @@
    ("1442244395343544453" :> <<"[", "R", "L", "C", "]">>)

SKIP_SYNC_ROLES == {"1442244395452862465", "1442244395452862464"}

ROLE_STAFF == "1442244395431628830"     \* a role with no tag and no protection

RoleIds == DOMAIN ROLE_TAGS \cup SKIP_SYNC_ROLES \cup {ROLE_STAFF}

\* member.roles: up to MaxRoles different roles, in the guild's order
RoleLists ==
    UNION { {q \in [1..n -> RoleIds] : \A i, j \in 1..n : q[i] = q[j] => i = j}
            : n \in 0..MaxRoles }

\* member.display_name: a start, then letters, at most NickLimit characters
Pad(n) == [i \in 1..n |-> "a"]
NameStarts ==
    { <<>>,
      <<"a", " ">>,
      <<"[", "a", " ">>,
      <<"[", "]", " ">>,
      <<"[", "I", "E", "]">>,
      <<"[", "I", "E", "]", " ">>,
      <<"[", "G", "T", "N", "H", "]", " ">> }
Names ==
    { n \in { p \o Pad(k) : p \in NameStarts, k \in 0..NickLimit } :
          /\ Len(n) \in 1..NickLimit
          /\ n[Len(n)] # " " }

startswith(s, prefix) ==
    Len(prefix) <= Len(s) /\ SubSeq(s, 1, Len(prefix)) = prefix
endswith(s, suffix) ==
    Len(suffix) <= Len(s) /\ SubSeq(s, Len(s) - Len(suffix) + 1, Len(s)) = suffix

\* current_nick.split(" ", 1)
split_once(s) ==
    IF \E i \in 1..Len(s) : s[i] = " "
    THEN LET i == CHOOSE k \in 1..Len(s) :
                      s[k] = " " /\ \A j \in 1..(k - 1) : s[j] # " "
         IN  <<SubSeq(s, 1, i - 1), SubSeq(s, i + 1, Len(s))>>
    ELSE <<s>>

has_skip_role(roles) == \E i \in 1..Len(roles) : roles[i] \in SKIP_SYNC_ROLES

\* the tag of the first role of member.roles that has one; <<>> stands for None
found_tag(roles) ==
    IF \E i \in 1..Len(roles) : roles[i] \in DOMAIN ROLE_TAGS
    THEN LET i == CHOOSE k \in 1..Len(roles) :
                      /\ roles[k] \in DOMAIN ROLE_TAGS
                      /\ \A j \in 1..(k - 1) : roles[j] \notin DOMAIN ROLE_TAGS
         IN  ROLE_TAGS[roles[i]]
    ELSE <<>>

new_base_name(current_nick) ==
    LET parts == split_once(current_nick)
    IN  IF Len(parts) > 1 /\ startswith(parts[1], <<"[">>) /\ endswith(parts[1], <<"]">>)
        THEN parts[2]
        ELSE current_nick

new_nick_untruncated(tag, current_nick) ==
    tag \o <<" ">> \o new_base_name(current_nick)

new_nick(tag, current_nick) ==
    LET base == new_base_name(current_nick)
        nick == tag \o <<" ">> \o base
    IN  IF Len(nick) > NickLimit
        THEN tag \o <<" ">> \o SubSeq(base, 1, Min(Len(base), NickLimit - Len(tag) - 1))
        ELSE nick

Returned(ok, msg) == [ok |-> ok, msg |-> msg]

\* one call of _sync_member(member); "Updated" stands for "Updated to <nick>"
sync_member ==
    /\ LET tag == found_tag(member.roles)
       IN  IF has_skip_role(member.roles)
           THEN /\ synced' = Returned(FALSE, "Skipped (Protected Role)")
                /\ edited' = FALSE
                /\ UNCHANGED member
           ELSE IF tag = <<>>
           THEN /\ synced' = Returned(FALSE, "No staff role tag found")
                /\ edited' = FALSE
                /\ UNCHANGED member
           ELSE IF startswith(member.nick, tag)
           THEN /\ synced' = Returned(TRUE, "Already synced")
                /\ edited' = FALSE
                /\ UNCHANGED member
           ELSE /\ edited' = TRUE
                /\ \E outcome \in {"ok", "Forbidden", "Exception"} :
                       IF outcome = "ok"
                       THEN /\ member' = Member(member.roles, new_nick(tag, member.nick))
                            /\ synced' = Returned(TRUE, "Updated")
                       ELSE /\ UNCHANGED member
                            /\ synced' = Returned(FALSE,
                                   IF outcome = "Forbidden" THEN "Missing Permissions"
                                   ELSE "Error")
    /\ UNCHANGED <<pollerVars, reviewVars>>

InitSync ==
    /\ PollerOff
    /\ holdsAdmin = [r \in Reviewers |-> TRUE]
    /\ handler = [r \in Reviewers |-> "idle"]
    /\ message = Message(<<>>, TRUE)
    /\ decisions = <<>>
    /\ applicantRoles = 0
    /\ member \in {Member(r, n) : r \in RoleLists, n \in Names}
    /\ synced = NoCall
    /\ edited = FALSE

NextSync == sync_member

SpecSync == InitSync /\ [][NextSync]_vars

\* ================================================================ claims
Count(seq, x) == Cardinality({i \in 1..Len(seq) : seq[i] = x})
Ids(s) == {p \in 1..Len(feed[s]) : feed[s][p]}
last_id_of(cur, s) == IF cur[s] \in {NoEntry, NoKey} THEN None ELSE cur[s]
Quiet == pc = "sleep" /\ crashes = 0 /\ sendFails = 0
           /\ \A s \in Servers : failedWith[s] = NoFail

Cold(cur, s) == last_id_of(cur, s) = None

\* C2 as stated: a body that begins with a server cursor-less sends no event
\* of that server, and ends with last_id equal to what the seeding fetch
\* returned (cursor-less if it returned nothing).
C2_ColdStart ==
    [][ /\ (sent' # sent => ~Cold(curAtStart, Cur))
        /\ (pc = "warm" /\ pc' = "sleep" =>
              \A s \in Servers :
                  (Cold(curAtStart, s) /\ seeded[s] # NotTried)
                      => last_id_of(state.cur, s) = seeded[s]) ]_vars

\* C3: the events of one batch reach the channel oldest first: what has been
\* sent of the batch is strictly increasing in feed position, and older than
\* every event of the batch still to be sent.
C3_OrderingLaw ==
    pc \in {"send", "advance"} =>
        LET n == Len(new_items) - sendIdx
            base == Len(sent[Cur]) - n
        IN /\ base >= 0
           /\ \A i \in 1..n : \A j \in 1..n :
                  i < j => sent[Cur][base + i] < sent[Cur][base + j]
           /\ \A i \in 1..n : \A k \in 1..sendIdx :
                  sent[Cur][base + i] < new_items[k].pos

C3_Witness == pc = "advance" /\ Len(new_items) >= 2

\* C4 as stated: a failed channel.send does not end the batch: the body goes
\* on with the next event of the same batch (and then advances the cursor).
C4_DeliveryFailureNonBlocking ==
    [][ sendFails' # sendFails =>
          /\ pc' \in {"send", "advance"}
          /\ idx' = idx
          /\ new_items' = new_items
          /\ sendIdx' = sendIdx - 1 ]_vars

\* The poller was killed between two servers of the warm loop.
KilledBetweenServers ==
    pc = "down" /\ crashedAt.pc = "warm" /\ crashedAt.idx >= 2
        /\ crashedAt.idx <= Len(ServerList)
Handled(i) == {ServerList[j] : j \in 1..(i - 1)}
Unpolled(i) == {ServerList[j] : j \in i..Len(ServerList)}

\* a server handled before the kill had a cursor and the pass advanced it
AdvancedBeforeKill ==
    \E a \in Handled(crashedAt.idx) :
        /\ ~Cold(crashedAt.start, a)
        /\ last_id_of(crashedAt.cur, a) # last_id_of(crashedAt.start, a)

\* C5 as stated: after a kill between servers A and B, the file gives A its
\* advanced cursor and B the cursor it had before the pass.
C5_CrashSafetyPriorCursor ==
    (KilledBetweenServers /\ AdvancedBeforeKill) =>
        /\ \A a \in Handled(crashedAt.idx) :
               last_id_of(load_state(file).cur, a) = last_id_of(crashedAt.cur, a)
        /\ \A b \in Unpolled(crashedAt.idx) :
               last_id_of(load_state(file).cur, b) = last_id_of(crashedAt.start, b)

\* C5 amended: after a kill between servers A and B, the file gives every
\* server the cursor it had in memory at the kill: A its advanced one, B the
\* one it had before the pass or, if it had none, the one this pass seeded.
C5_CrashSafety ==
    KilledBetweenServers =>
        /\ \A s \in Servers :
               last_id_of(load_state(file).cur, s) = last_id_of(crashedAt.cur, s)
        /\ \A b \in Unpolled(crashedAt.idx) :
               ~Cold(crashedAt.start, b) =>
                   last_id_of(load_state(file).cur, b) = last_id_of(crashedAt.start, b)

C5_Witness ==
    /\ KilledBetweenServers
    /\ crashedAt.idx = 2
    /\ AdvancedBeforeKill
    /\ ~Cold(crashedAt.start, "B")
    /\ last_id_of(load_state(file).cur, "A") = last_id_of(crashedAt.cur, "A")

\* C6 as stated: the file only ever changes from one complete content to the
\* complete new content.
C6_AtomicSave ==
    [][ file' # file => file' = File(TRUE, json_dumps(state)) ]_vars

\* C7: a failed warm fetch of a server that has a cursor sends nothing,
\* leaves every cursor in memory and the file as they are and goes on with
\* the next server; the next fetch for that server uses the same last_id.
WarmFetchFailed ==
    /\ pc = "warm" /\ InLoop /\ pc' = "warm" /\ idx' = idx + 1
    /\ failedWith'[Cur] # NoFail
C7_FetchFailureRecovered ==
    /\ [][ (WarmFetchFailed /\ ~Cold(state.cur, Cur)) =>
             /\ sent' = sent
             /\ file' = file
             /\ \A s \in Servers : last_id_of(state'.cur, s) = last_id_of(state.cur, s)
             /\ failedWith'[Cur] = last_id_of(state.cur, Cur) ]_vars
    /\ [](pc = "warm" /\ InLoop /\ failedWith[Cur] \notin {NoFail, None}
             => /\ get_last_id(state, Cur) = failedWith[Cur]
                /\ last_id_of(load_state(file).cur, Cur) = failedWith[Cur])

C7_Witness ==
    pc = "warm" /\ InLoop /\ failedWith[Cur] \notin {NoFail, None}
        /\ Len(feed[Cur]) > failedWith[Cur]

\* The page of the batch being sent, and whether last_id is missing from it.
PageNow == fetch_client_server_activity(feed, Cur, WarmPerPage)
GapNow ==
    /\ get_last_id(state, Cur) # None
    /\ \A i \in 1..Len(PageNow) : extract_activity_id(PageNow[i]) # get_last_id(state, Cur)

HasId(item) == item.hasId
Events(page) == SelectSeq(page, HasId)

\* C8 as stated: when last_id is not in the fetched page, the batch is every
\* event of the page, each of them is sent without an error ending the
\* batch, and the cursor becomes the newest of them.
C8_GapHandling ==
    /\ [](pc \in {"send", "advance"} /\ GapNow => new_items = Events(PageNow))
    /\ [][ pc = "send" /\ GapNow => pc' \in {"send", "advance", "down"} ]_vars
    /\ [][ pc = "advance" /\ GapNow /\ pc' # "down"
             => get_last_id(state', Cur) = Events(PageNow)[1].pos ]_vars

\* a state file that is missing, empty, cut short or not a JSON object
Corrupt(f) ==
    \/ ~f.exists
    \/ f.text = <<>>
    \/ f.text = <<ARR>>
    \/ f.text[Len(f.text)] # RB

\* C9: load_state turns a corrupt file into the empty mapping, and the body
\* that loaded it treats every tracked server as cursor-less.
C9_CorruptNeverFatal ==
    /\ Corrupt(file) => load_state(file) = EmptyState
    /\ (pc = "seed" /\ Corrupt(file)) =>
           /\ \A s \in Servers : curAtStart[s] = NoEntry
           /\ \A s \in Unpolled(idx) : ~HasLastIdKey(state, s)

C9_Witness ==
    pc = "seed" /\ idx = 1 /\ Corrupt(file) /\ file.exists /\ file.text # <<>>
        /\ crashes = 1

\* C10: an empty server list is logged once per process, touches neither the
\* feed, the channel nor the file, and leaves the loop disabled: no body
\* runs afterwards and no exception ends it.
C10_EmptyServerList ==
    /\ [](warnings <= 1)
    /\ [][ warnings' > warnings =>
             /\ pc' = "disabled"
             /\ UNCHANGED <<file, sent, state, feed, failedWith, seeded>> ]_vars
    /\ [][ pc = "disabled" => pc' \in {"disabled", "down"} ]_vars

C10_Witness == pc = "disabled" /\ warnings = 1 /\ booted

\* C11 as stated: no failure ends the poll loop; the loop is only ever
\* stopped by an empty server list, which logs its warning.
C11_FailuresNeverStop ==
    /\ pc # "dead"
    /\ (pc = "disabled" => warnings >= 1)

\* the keys of the state file that are not a server's last_id
Extras(st) == <<st.other, st.pextra, st.sextra>>
Body == {"seed", "save_open", "save_write", "warm", "send", "advance"}

\* C12: while a body runs, the keys other than last_id that it holds in
\* memory are the ones of the file it loaded, no step of the body changes
\* them, and every file it has written holds them with the same values.
C12_ForwardCompatible ==
    /\ [](pc \in (Body \ {"save_write"}) \/ (pc = "sleep" /\ impl = "bot" /\ booted)
             => Extras(state) = Extras(load_state(file)))
    /\ [][ (pc \in Body /\ pc' \in Body) => Extras(state') = Extras(state) ]_vars

C12_Witness ==
    /\ pc = "warm" /\ idx = 2
    /\ Extras(load_state(file)) = Extras(ForeignState)
    /\ load_state(file).cur["A"] > None

\* C13: in the worked example the pass that sees [105, 104, 103] sends
\* nothing for sb4 and stores last_id 105; the pass that sees 107 and 106
\* sends exactly 106 then 107 and stores last_id 107.
ScenarioId(p) == 102 + p
ScenarioPage == fetch_client_server_activity(feed, "A", ScenarioPerPage)
C13_Scenario ==
    /\ Len(feed["A"]) = 3 =>
           /\ sent["A"] = <<>>
           /\ (pc = "seed" /\ idx >= 2) => ScenarioId(state.cur["A"]) = 105
           /\ (pc = "warm" \/ (pc = "sleep" /\ booted)) =>
                  ScenarioId(last_id_of(load_state(file).cur, "A")) = 105
    /\ Len(feed["A"]) = 5 =>
           /\ [i \in 1..4 |-> ScenarioId(extract_activity_id(ScenarioPage[i]))]
                  = <<107, 106, 105, 104>>
           /\ (pc = "send" /\ Cur = "A") =>
                  [i \in 1..Len(new_items) |-> ScenarioId(new_items[i].pos)] = <<107, 106>>
           /\ (pc = "warm" /\ idx >= 2) =>
                  /\ [i \in 1..Len(sent["A"]) |-> ScenarioId(sent["A"][i])] = <<106, 107>>
                  /\ ScenarioId(get_last_id(state, "A")) = 107
                  /\ ScenarioId(last_id_of(load_state(file).cur, "A")) = 107

C13_Witness ==
    /\ pc = "warm" /\ idx = 2 /\ Len(feed["A"]) = 5
    /\ sent["A"] = <<4, 5>>
    /\ load_state(file).cur["A"] = 5

\* the last_id values a server has now: in memory and in the file
LastIds(s) == {get_last_id(state, s), last_id_of(load_state(file).cur, s)} \ {None}

\* C14 as stated: once last_id is E, every event older than E has been sent
\* exactly once or was skipped by seeding (an event counts as skipped by
\* seeding when neither it nor any older event was ever sent).
C14_CursorInvariant ==
    \A s \in Servers : \A E \in LastIds(s) : \A p \in Ids(s) :
        p < E =>
            /\ Count(sent[s], p) <= 1
            /\ (Count(sent[s], p) = 0 =>
                   \A q \in Ids(s) : q < p => Count(sent[s], q) = 0)

\* C14 amended: last_id changes to E only in two ways.  Seeding sets it for
\* a server that had none, to the newest id, and sends nothing.  An advance
\* sets it to the newest id of the batch after the whole batch was sent,
\* oldest first, and the batch holds every event of the fetched page that
\* is newer than the previous last_id.
C14_CursorAdvance ==
    [][ \A s \in Servers :
          (pc \in Body /\ pc' \in Body
              /\ get_last_id(state', s) \notin {None, get_last_id(state, s)}) =>
            /\ s = Cur
            /\ IF pc = "advance"
               THEN LET n == Len(new_items) IN
                    /\ n >= 1 /\ Len(sent[s]) >= n
                    /\ \A i \in 1..n :
                           sent[s][Len(sent[s]) - n + i] = new_items[n - i + 1].pos
                    /\ get_last_id(state', s) = new_items[1].pos
                    /\ \A k \in 1..Len(PageNow) :
                           (PageNow[k].hasId /\ PageNow[k].pos > get_last_id(state, s))
                               <=> (\E i \in 1..n : new_items[i] = PageNow[k])
               ELSE /\ get_last_id(state, s) = None
                    /\ sent' = sent
                    /\ feed[s] # <<>> /\ feed[s][Len(feed[s])]
                    /\ get_last_id(state', s) = Len(feed[s]) ]_vars

C14_Witness ==
    /\ pc = "save_open" /\ idx = 2
    /\ get_last_id(state, "A") = 3
    /\ last_id_of(load_state(file).cur, "A") = 1
    /\ sent["A"] = <<2, 3>>

\* the poller is about to fetch for the server at idx
FetchNext ==
    \/ pc = "seed" /\ InLoop /\ ~HasLastIdKey(state, Cur)
    \/ pc = "warm" /\ InLoop
\* index of the server whose cursor update was in flight at the kill
InFlight(c) == IF c.pc \in {"save_open", "save_write"} THEN c.idx - 1 ELSE c.idx

\* C15 as stated: when a fetch starts, every last_id in memory is in the
\* file; after a kill the file holds the last_id of every server except,
\* at most, the one that was being processed.
C15_ImmediatePersistence ==
    /\ FetchNext =>
           \A s \in Servers : last_id_of(load_state(file).cur, s) = get_last_id(state, s)
    /\ (pc = "down" /\ crashedAt.pc \in Body) =>
           \A i \in 1..Len(ServerList) :
               i # InFlight(crashedAt) =>
                   last_id_of(load_state(file).cur, ServerList[i])
                       = last_id_of(crashedAt.cur, ServerList[i])

\* the part of a page before the first entry whose id is last_id
Hits(page, last_id) == {i \in 1..Len(page) : extract_activity_id(page[i]) = last_id}
Prefix(page, last_id) ==
    IF Hits(page, last_id) = {} THEN page
    ELSE SubSeq(page, 1, (CHOOSE i \in Hits(page, last_id) :
                              \A j \in Hits(page, last_id) : i <= j) - 1)

\* C16 as stated: the batch of a warm poll is exactly the prefix of the page
\* before the entry whose id is last_id, or the whole page.
C16_DiffWholePrefix ==
    (pc \in {"send", "advance"} /\ get_last_id(state, Cur) # None) =>
        new_items = Prefix(PageNow, get_last_id(state, Cur))

\* C16 amended: the batch is that prefix without its id-less entries; a
\* fetch that starts no batch found none; only entries of the prefix are sent.
C16_Diff ==
    /\ []((pc \in {"send", "advance"} /\ get_last_id(state, Cur) # None) =>
             new_items = Events(Prefix(PageNow, get_last_id(state, Cur))))
    /\ [][ (pc = "warm" /\ InLoop /\ pc' = "warm" /\ idx' = idx + 1
               /\ failedWith'[Cur] = NoFail /\ get_last_id(state, Cur) # None)
             => Events(Prefix(PageNow, get_last_id(state, Cur))) = <<>> ]_vars
    /\ [][ (sent' # sent /\ get_last_id(state, Cur) # None) =>
             \E k \in 1..Len(Prefix(PageNow, get_last_id(state, Cur))) :
                 /\ Prefix(PageNow, get_last_id(state, Cur))[k].hasId
                 /\ sent'[Cur] = Append(sent[Cur],
                                        Prefix(PageNow, get_last_id(state, Cur))[k].pos) ]_vars

C16_Witness ==
    /\ pc = "send"
    /\ get_last_id(state, Cur) = 1
    /\ Len(PageNow) = 2 /\ extract_activity_id(PageNow[2]) = 1
    /\ Len(new_items) = 1

\* C17 as stated: an advance stores the id of the first element of the page.
C17_AdvanceFirstOfPage ==
    [][ (pc = "advance" /\ pc' = "save_open") =>
          get_last_id(state', Cur) = extract_activity_id(PageNow[1]) ]_vars

\* C17 amended: an advance stores the id of the newest entry of the page
\* that carries an id, which is the first element when that one has an id,
\* and changes no other server's record.
C17_Advance ==
    [][ (pc = "advance" /\ pc' = "save_open") =>
          /\ Events(PageNow) # <<>>
          /\ get_last_id(state', Cur) = extract_activity_id(Events(PageNow)[1])
          /\ get_last_id(state', Cur) # None
          /\ (PageNow[1].hasId =>
                 get_last_id(state', Cur) = extract_activity_id(PageNow[1]))
          /\ \A s \in Servers \ {Cur} : state'.cur[s] = state.cur[s] ]_vars

C17_Witness ==
    /\ pc = "save_open" /\ idx = 2
    /\ Len(feed["A"]) = 3 /\ ~feed["A"][3]
    /\ get_last_id(state, "A") = 2
    /\ sent["A"] = <<2>>

\* the batch being sent follows a failed warm fetch of the same server, and
\* last_id is inside the page fetched now
Recovering ==
    /\ pc = "send"
    /\ failedWith[Cur] \notin {NoFail, None}
    /\ ~GapNow
NewerThan(s, last_id) == {p \in Ids(s) : p > last_id}

\* C19 as stated: the pass whose fetch succeeds after a failed one, with
\* last_id inside the page, has every event newer than last_id in its
\* batch and sends each of them; only a kill of the process ends it early.
C19_NoLossAfterFailure ==
    /\ [](Recovering =>
             {new_items[i].pos : i \in 1..Len(new_items)}
                 = NewerThan(Cur, get_last_id(state, Cur)))
    /\ [][ Recovering => pc' \in {"send", "advance", "down"} ]_vars

\* C20 as stated: while the process lives, what has been sent for a server
\* over all passes is strictly increasing in feed position.
C20_OrderAcrossPasses ==
    crashes = 0 =>
        \A s \in Servers : \A i \in 1..Len(sent[s]) : \A j \in 1..Len(sent[s]) :
            i < j => sent[s][i] < sent[s][j]

\* the seeding fetch of this body for s failed or returned no entry (every
\* entry of the feed carries an id, so it did not return an id-less one)
SeedingCameUpEmpty(s) ==
    /\ Cold(curAtStart, s)
    /\ seeded[s] = None
    /\ \A p \in 1..Len(feed[s]) : feed[s][p]

\* C18 as stated: a server whose seeding fetch failed or returned nothing
\* has no last_id when that body ends, and a body that starts while a
\* server has no last_id starts with the seeding loop.
C18_FailedSeedingStaysCold ==
    /\ [][ (pc = "warm" /\ pc' = "sleep") =>
             \A s \in Servers : SeedingCameUpEmpty(s) => Cold(state.cur, s) ]_vars
    /\ [][ (pc = "sleep" /\ pc' \in Body
               /\ \E s \in Servers : Cold(load_state(file).cur, s))
             => pc' = "seed" ]_vars

\* a file that holds one complete JSON object, as json.dumps writes it
Complete(f) ==
    /\ f.exists
    /\ ParsesAsObject(f.text)
    /\ json_dumps(json_loads(f.text)) = f.text

\* C21: a cancellation leaves the file as it was, and the file it leaves is
\* missing, as before the first save, or one complete mapping: the one of
\* the last save, which holds the cursors that were in memory at the
\* cancellation except those a seeding loop had not saved yet.
C21_CancellationSafety ==
    /\ [](pc = "cancelled" =>
             /\ ~file.exists \/ Complete(file)
             /\ crashedAt.pc \in {"warm", "send"} =>
                    \A s \in Servers :
                        last_id_of(load_state(file).cur, s) = last_id_of(crashedAt.cur, s))
    /\ [][ pc' = "cancelled" => file' = file ]_vars

C21_Witness ==
    /\ pc = "cancelled" /\ crashedAt.pc = "send"
    /\ Complete(file)
    /\ load_state(file).cur["A"] = 1
    /\ sent["A"] = <<2>>

\* C22 as stated: the server list is resolved once; a pass after the first
\* one therefore never finds it empty, logs the warning and disables the loop.
C22_ResolvedOnce ==
    [][ (booted /\ pc = "sleep") => (warnings' = warnings /\ pc' # "disabled") ]_vars

\* C23: a warm fetch that returns no entries for a server that has a cursor
\* sends nothing, changes no record in memory, leaves the file alone and
\* goes on with the next server.
C23_EmptyPageNoOp ==
    [][ (WarmFetchEmpty /\ get_last_id(state, Cur) # None) =>
          /\ sent' = sent
          /\ state' = state
          /\ file' = file
          /\ pc' = "warm" /\ idx' = idx + 1 ]_vars

\* the empty page came although the feed holds events newer than the cursor
C23_Witness ==
    /\ pc = "warm" /\ idx = 2
    /\ get_last_id(state, "A") = 1 /\ Len(feed["A"]) = 2
    /\ failedWith["A"] = NoFail
    /\ sent["A"] = <<>>
    /\ load_state(file).cur["A"] = 1

\* C24: between two servers of the warm loop the file and the memory hold
\* the same last_id for every server, and a step of the body changes, in
\* memory, the record of no server but the one it handles; so the file
\* written while A is handled gives every other server B its last_id unchanged.
C24_PerServerIndependence ==
    /\ [](pc = "warm" =>
             \A s \in Servers :
                 last_id_of(load_state(file).cur, s) = get_last_id(state, s))
    /\ [][ (pc \in Body /\ pc' \in Body) =>
             \A s \in Servers :
                 state'.cur[s] # state.cur[s] => (InLoop /\ s = Cur) ]_vars

C24_Witness ==
    /\ pc = "warm" /\ idx = 2
    /\ sent["A"] = <<2>> /\ get_last_id(state, "A") = 2
    /\ get_last_id(state, "B") = 1
    /\ load_state(file).cur["B"] = 1

\* C25: the last_id a server has in the file is, whenever it has one, the
\* newest last_id that was ever saved for it, and the last_id it has in
\* memory is never older than that: no store and no save, in any pass or
\* after any restart, moves last_id back to an older event.
C25_CursorMonotone ==
    LET saved == load_state(file).cur
    IN  \A s \in Servers :
            /\ last_id_of(saved, s) \in {None, maxSaved[s]}
            /\ get_last_id(state, s) # None => get_last_id(state, s) >= maxSaved[s]

\* the file lost a saved last_id in a torn write, and the restarted poller
\* has stored a last_id again and is about to save it
C25_Witness ==
    /\ crashes = 1 /\ pc = "save_open"
    /\ maxSaved["A"] = 2
    /\ last_id_of(load_state(file).cur, "A") = None
    /\ get_last_id(state, "A") = 3

\* ids of the batch whose send has been attempted, and the rest of the batch
BatchIds == {new_items[k].pos : k \in 1..Len(new_items)}
BatchTail ==
    SubSeq(sent[Cur], Len(sent[Cur]) - (Len(new_items) - sendIdx) + 1, Len(sent[Cur]))

\* C26: while a batch is being sent, neither the last_id in memory nor the
\* one in the file names an event of the batch; last_id is stored only when
\* no send of the batch is left, and sent holds the whole batch by then; and
\* save_state writes a last_id only after it was stored in memory.
C26_EmitBeforeAdvance ==
    /\ [](pc \in {"send", "advance"} =>
             /\ get_last_id(state, Cur) \notin BatchIds
             /\ last_id_of(load_state(file).cur, Cur) \notin BatchIds
             /\ Len(sent[Cur]) >= Len(new_items) - sendIdx
             /\ BatchTail = [i \in 1..(Len(new_items) - sendIdx) |->
                                new_items[Len(new_items) - i + 1].pos])
    /\ [](pc = "send" => sendIdx >= 1)
    /\ [](pc = "advance" => sendIdx = 0)
    /\ [][ file' # file =>
             LET before == load_state(file).cur
                 after == load_state(file').cur
             IN  \A s \in Servers :
                     last_id_of(after, s) \in
                         {None, last_id_of(before, s), get_last_id(state, s)} ]_vars

C26_Witness ==
    /\ pc = "save_write" /\ idx = 2
    /\ get_last_id(state, "A") = 3
    /\ maxSaved["A"] = 1
    /\ sent["A"] = <<2, 3>>
    /\ sendFails = 0 /\ crashes = 0

\* C27: an entry without an id is never sent and does not end the diff (the
\* batch holds every id-bearing entry of the page that is newer than
\* last_id, also behind an id-less one), and a last_id other than null is
\* the id of an id-bearing entry of the server's own feed, in memory and in
\* the file.
C27_EntriesWithoutId ==
    [](\A s \in Servers :
            /\ \A i \in 1..Len(sent[s]) : sent[s][i] \in Ids(s)
            /\ get_last_id(state, s) # None => get_last_id(state, s) \in Ids(s)
            /\ LET saved == last_id_of(load_state(file).cur, s)
               IN  saved # None => saved \in Ids(s)
            /\ (pc \in {"send", "advance"} /\ s = Cur) =>
                   /\ \A k \in 1..Len(new_items) : new_items[k].hasId
                   /\ BatchIds = {PageNow[k].pos : k \in
                                     {j \in 1..Len(PageNow) :
                                         PageNow[j].hasId /\ PageNow[j].pos > get_last_id(state, s)}})

C27_Witness ==
    /\ pc = "send"
    /\ Len(PageNow) = 2 /\ ~PageNow[1].hasId
    /\ get_last_id(state, Cur) = 1
    /\ BatchIds = {2}

\* C28: for one application message at most one decision is ever recorded: the
\* message gets at most one Status field over its life, the applicant is given
\* roles at most once, and roles are never given on an application that is
\* also declined.
C28_SingleDecision ==
    /\ Len(decisions) <= 1
    /\ applicantRoles <= 1
    /\ applicantRoles >= 1 => \A i \in 1..Len(decisions) : decisions[i] = "accepted"

\* C29: the accept and decline handlers start only for a reviewer who is a guild
\* member holding ROLE_ADMIN, a rejected interaction changes neither the
\* applicant's roles nor the message, and a Status field is added only by an
\* interaction whose user holds ROLE_ADMIN when it arrives (the submission of the
\* Decline modal is such an interaction).
C29_ReviewAuthorization ==
    [][ \A r \in Reviewers :
          /\ (Free(r) /\ handler'[r] \in {"accept_member", "decline_member"})
                 => holdsAdmin[r]
          /\ (handler[r] # "rejected" /\ handler'[r] = "rejected")
                 => UNCHANGED <<message, decisions, applicantRoles>>
          /\ (handler[r] = "modal" /\ handler'[r] = "done")
                 => holdsAdmin[r] ]_vars

\* C30: after _sync_member has edited the nickname, the nickname starts with the
\* tag of the member's first tagged role and has at most 32 characters; the next
\* _sync_member on the member, its roles unchanged, returns (True, "Already
\* synced") and calls no edit; a member with a role of SKIP_SYNC_ROLES is never
\* edited.
C30_SyncIdempotent ==
    /\ [](synced = Returned(TRUE, "Updated") =>
             /\ edited
             /\ found_tag(member.roles) # <<>>
             /\ startswith(member.nick, found_tag(member.roles))
             /\ Len(member.nick) <= NickLimit)
    /\ [][ synced = Returned(TRUE, "Updated") =>
             /\ synced' = Returned(TRUE, "Already synced")
             /\ ~edited'
             /\ member' = member ]_vars
    /\ [][ has_skip_role(member.roles) => (member' = member /\ ~edited') ]_vars

\* a nickname that had to be cut to 32 characters, for a member whose tagged
\* role is not the first of its roles
C30_Witness ==
    /\ synced = Returned(TRUE, "Updated")
    /\ Len(member.nick) = NickLimit
    /\ Len(member.roles) = 2
    /\ member.roles[1] = ROLE_STAFF
    /\ member.nick = ROLE_TAGS[member.roles[2]] \o <<" ">>
                        \o Pad(NickLimit - Len(ROLE_TAGS[member.roles[2]]) - 1)

====
